---- MODULE Spec2Model ----
(***************************************************************************)
(* One run of check_alerts (src/src/hpe_oneview.rs): build the HTTP        *)
(* client, log in to HPE OneView, fetch the uncleared alerts, aggregate    *)
(* them by severity into a Nagios state, log out, return.                  *)
(*                                                                         *)
(* The remote endpoint and the reqwest / serde_json libraries are the      *)
(* environment: each HTTP call draws its response from a small set.        *)
(***************************************************************************)
EXTENDS Integers, Sequences, FiniteSets, TLC

VARIABLES pc, ca, insecure, client, loginResp, session_token, alertsResp,
          alerts, ok_count, warn_count, critical_count, result, logoutResp,
          requests, ret

vars == <<pc, ca, insecure, client, loginResp, session_token, alertsResp,
          alerts, ok_count, warn_count, critical_count, result, logoutResp,
          requests, ret>>

(***************************************************************************)
(* Bounds                                                                  *)
(***************************************************************************)
MaxMembers == 3
MaxCount == 3

(***************************************************************************)
(* Option and Result values                                                *)
(***************************************************************************)
None == <<>>
Some(v) == <<v>>

Ok(v) == [kind |-> "ok", value |-> v]
Err(t, m) == [kind |-> "err", type |-> t, error |-> m]

(***************************************************************************)
(* Strings.  A severity is a sequence of characters so that to_lowercase   *)
(* is computed character by character; messages are TLA+ strings.          *)
(***************************************************************************)
UpperCase == <<"A","B","C","D","E","F","G","H","I","J","K","L","M",
               "N","O","P","Q","R","S","T","U","V","W","X","Y","Z">>
LowerCase == <<"a","b","c","d","e","f","g","h","i","j","k","l","m",
               "n","o","p","q","r","s","t","u","v","w","x","y","z">>

LowerChar(c) ==
    IF \E i \in 1..26 : UpperCase[i] = c
    THEN LowerCase[CHOOSE i \in 1..26 : UpperCase[i] = c]
    ELSE c

to_lowercase(s) == [i \in 1..Len(s) |-> LowerChar(s[i])]

RECURSIVE Str(_)
Str(s) == IF s = <<>> THEN "" ELSE s[1] \o Str(Tail(s))

Digits == <<"0","1","2","3","4","5","6","7","8","9">>

RECURSIVE Display(_)
Display(n) ==
    IF n < 10 THEN Digits[n + 1]
    ELSE Display(n \div 10) \o Digits[(n % 10) + 1]

RECURSIVE join(_, _)
join(list, sep) ==
    IF list = <<>> THEN ""
    ELSE IF Len(list) = 1 THEN list[1]
    ELSE list[1] \o sep \o join(Tail(list), sep)

(***************************************************************************)
(* nagios::NagiosState and its status constants                            *)
(***************************************************************************)
OK == "OK"
WARNING == "WARNING"
CRITICAL == "CRITICAL"
UNKNOWN == "UNKNOWN"

NagiosState(s, m) == [status |-> s, message |-> m]

(***************************************************************************)
(* Inputs of the run                                                       *)
(***************************************************************************)
CaEmpty == [len |-> 0, pem |-> FALSE]
CaValid == [len |-> 1, pem |-> TRUE]
CaMalformed == [len |-> 1, pem |-> FALSE]
CaInputs == {CaEmpty, CaValid, CaMalformed}

SevOk == <<"o","k">>
SevWarning == <<"w","a","r","n","i","n","g">>
SevCritical == <<"c","r","i","t","i","c","a","l">>

Severities ==
    { SevOk, <<"O","K">>,
      SevWarning, <<"W","a","r","n","i","n","g">>,
      SevCritical, <<"C","r","i","t","i","c","a","l">>,
      <<"C","R","I","T","I","C","A","L">>,
      <<"w","e","i","r","d">> }

Alert(sev) == [severity |-> sev]

RECURSIVE SeqsUpTo(_, _)
SeqsUpTo(S, n) ==
    IF n = 0 THEN {<<>>}
    ELSE LET shorter == SeqsUpTo(S, n - 1)
         IN shorter \cup {Append(q, x) : q \in {r \in shorter : Len(r) = n - 1}, x \in S}

AlertResourceCollection ==
    [count : 0..MaxCount,
     members : SeqsUpTo({Alert(s) : s \in Severities}, MaxMembers)]

(***************************************************************************)
(* HTTP responses                                                          *)
(***************************************************************************)
TransportError == [kind |-> "transport_error"]

HeaderValues == {[text |-> "sess-1", visible_ascii |-> TRUE],
                 [text |-> "", visible_ascii |-> FALSE]}

LoginStatuses == {200, 401, 500}

LoginResponses ==
    {TransportError} \cup
    [kind : {"http"}, status : LoginStatuses,
     sessionID : {None} \cup {Some(h) : h \in HeaderValues}]

AlertStatuses == {204, 401, 500, 599}

AlertBodies ==
    {[kind |-> "unreadable"], [kind |-> "malformed"]} \cup
    {[kind |-> "json", value |-> a] : a \in AlertResourceCollection}

AlertResponses ==
    {TransportError} \cup
    {[kind |-> "http", status |-> s, body |-> [kind |-> "malformed"]] : s \in AlertStatuses} \cup
    {[kind |-> "http", status |-> 200, body |-> b] : b \in AlertBodies}

LogoutResponses ==
    {TransportError} \cup {[kind |-> "http", status |-> s] : s \in {204, 500}}

(***************************************************************************)
(* create_client: the TLS trust policy of the client builder               *)
(***************************************************************************)
from_pem(ca_cert) ==
    IF ca_cert.pem THEN Ok(ca_cert) ELSE Err("reqwest::Error", "invalid certificate")

\* A client builder that parses a supplied CA before it looks at insecure_ssl.
create_client_ca_first(ca_cert, insecure_ssl) ==
    LET cli == [accept_invalid_certs |-> insecure_ssl,
                accept_invalid_hostnames |-> insecure_ssl,
                root_certificates |-> <<>>,
                pool_max_idle_per_host |-> 0]
    IN IF ca_cert.len # 0
       THEN LET c == from_pem(ca_cert)
            IN IF c.kind = "err" THEN c
               ELSE Ok([cli EXCEPT !.root_certificates = <<c.value>>])
       ELSE Ok(cli)

create_client(ca_cert, insecure_ssl) ==
    LET cli == [accept_invalid_certs |-> FALSE,
                accept_invalid_hostnames |-> FALSE,
                root_certificates |-> <<>>,
                pool_max_idle_per_host |-> 0]
    IN IF insecure_ssl
       THEN Ok([cli EXCEPT !.accept_invalid_certs = TRUE,
                           !.accept_invalid_hostnames = TRUE])
       ELSE IF ca_cert.len # 0
       THEN LET c == from_pem(ca_cert)
            IN IF c.kind = "err" THEN c
               ELSE Ok([cli EXCEPT !.root_certificates = <<c.value>>])
       ELSE Ok(cli)

(***************************************************************************)
(* login, logout, get_alerts: what each makes of the response it receives  *)
(***************************************************************************)
LoginRequest == [method |-> "POST", path |-> "/rest/login-sessions", auth |-> None]
LogoutRequest(token) ==
    [method |-> "DELETE", path |-> "/rest/login-sessions", auth |-> Some(token)]
AlertsRequest(token) ==
    [method |-> "GET", path |-> "/rest/alerts", auth |-> Some(token)]

to_str(v) ==
    IF v.visible_ascii THEN Ok(v.text) ELSE Err("ToStrError", "failed to convert header to a str")

\* A login that takes a missing sessionID header for an empty token.
login_default_token(resp) ==
    IF resp.kind = "transport_error"
    THEN Err("reqwest::Error", "error sending request")
    ELSE IF resp.sessionID = None
    THEN Ok("")
    ELSE to_str(resp.sessionID[1])

login(resp) ==
    IF resp.kind = "transport_error"
    THEN Err("reqwest::Error", "error sending request")
    ELSE IF resp.sessionID = None
    THEN Err("SimpleError", "Login to HPE OneView failed")
    ELSE to_str(resp.sessionID[1])

logout(resp) ==
    IF resp.kind = "transport_error"
    THEN Err("reqwest::Error", "error sending request")
    ELSE Ok(<<>>)

canonical_reason(status) ==
    CASE status = 200 -> Some("OK")
      [] status = 204 -> Some("No Content")
      [] status = 401 -> Some("Unauthorized")
      [] status = 500 -> Some("Internal Server Error")
      [] OTHER -> None

unwrap_or(opt, default) == IF opt = None THEN default ELSE opt[1]

get_alerts(resp) ==
    IF resp.kind = "transport_error"
    THEN Err("reqwest::Error", "error sending request")
    ELSE IF resp.status # 200
    THEN Err("SimpleError", unwrap_or(canonical_reason(resp.status), "unknown HTTP status"))
    ELSE IF resp.body.kind = "unreadable"
    THEN Err("reqwest::Error", "error decoding response body")
    ELSE IF resp.body.kind = "malformed"
    THEN Err("serde_json::Error", "invalid JSON")
    ELSE Ok(resp.body.value)

(***************************************************************************)
(* The aggregation of check_alerts                                         *)
(***************************************************************************)
Counts(o, w, c) == [ok_count |-> o, warn_count |-> w, critical_count |-> c]

\* The for loop over alerts.members: the counters after the loop, or the
\* error of the first member whose severity is not known.
RECURSIVE count_loop(_, _)
count_loop(members, acc) ==
    IF members = <<>> THEN Ok(acc)
    ELSE LET alert == members[1]
             sev == to_lowercase(alert.severity)
         IN IF sev = SevOk
            THEN count_loop(Tail(members), [acc EXCEPT !.ok_count = @ + 1])
            ELSE IF sev = SevWarning
            THEN count_loop(Tail(members), [acc EXCEPT !.warn_count = @ + 1])
            ELSE IF sev = SevCritical
            THEN count_loop(Tail(members), [acc EXCEPT !.critical_count = @ + 1])
            ELSE Err("SimpleError", "BUG: Unknown alert severity " \o Str(alert.severity))

status_of(crit, warn) ==
    IF crit > 0 THEN CRITICAL
    ELSE IF warn > 0 THEN WARNING
    ELSE OK

msg_list_of(crit, warn, ok) ==
    (IF crit > 0 THEN <<Display(crit) \o " critical alerts found">> ELSE <<>>)
    \o (IF warn > 0 THEN <<Display(warn) \o " warning alerts found">> ELSE <<>>)
    \o <<Display(ok) \o " harmless alerts found">>

no_alerts(a) == a.count = 0

\* Lines 24-65 as a function of the fetched collection: an early return, a
\* bail out of the loop, or the computed result that falls through to logout.
aggregate(a) ==
    IF no_alerts(a)
    THEN [path |-> "return", value |-> Ok(NagiosState(OK, "No uncleared alerts found"))]
    ELSE LET r == count_loop(a.members, Counts(0, 0, 0))
         IN IF r.kind = "err"
            THEN [path |-> "bail", value |-> r]
            ELSE [path |-> "fallthrough",
                  counts |-> r.value,
                  value |-> Ok(NagiosState(
                      status_of(r.value.critical_count, r.value.warn_count),
                      join(msg_list_of(r.value.critical_count, r.value.warn_count,
                                       r.value.ok_count), ", ")))]

(***************************************************************************)
(* The run                                                                 *)
(***************************************************************************)
Init ==
    /\ pc = "create_client"
    /\ ca \in CaInputs
    /\ insecure \in BOOLEAN
    /\ client = None
    /\ loginResp = None
    /\ session_token = None
    /\ alertsResp = None
    /\ alerts = None
    /\ ok_count = 0
    /\ warn_count = 0
    /\ critical_count = 0
    /\ result = NagiosState(UNKNOWN, "")
    /\ logoutResp = None
    /\ requests = <<>>
    /\ ret = None

\* let client = create_client(ca, insecure)?;
CreateClient ==
    /\ pc = "create_client"
    /\ LET r == create_client(ca, insecure)
       IN IF r.kind = "err"
          THEN /\ ret' = Some(r)
               /\ pc' = "done"
               /\ UNCHANGED client
          ELSE /\ client' = Some(r.value)
               /\ pc' = "login"
               /\ UNCHANGED ret
    /\ UNCHANGED <<ca, insecure, loginResp, session_token, alertsResp, alerts,
                   ok_count, warn_count, critical_count, result, logoutResp, requests>>

\* let session_token = login(&client, host, user, pass)?;
Login ==
    /\ pc = "login"
    /\ \E resp \in LoginResponses :
         /\ loginResp' = Some(resp)
         /\ requests' = Append(requests, LoginRequest)
         /\ LET r == login(resp)
            IN IF r.kind = "err"
               THEN /\ ret' = Some(r)
                    /\ pc' = "done"
                    /\ UNCHANGED session_token
               ELSE /\ session_token' = Some(r.value)
                    /\ pc' = "get_alerts"
                    /\ UNCHANGED ret
    /\ UNCHANGED <<ca, insecure, client, alertsResp, alerts, ok_count, warn_count,
                   critical_count, result, logoutResp>>

\* let alerts = get_alerts(&client, host, &session_token)?;
GetAlerts ==
    /\ pc = "get_alerts"
    /\ \E resp \in AlertResponses :
         /\ alertsResp' = Some(resp)
         /\ requests' = Append(requests, AlertsRequest(session_token[1]))
         /\ LET r == get_alerts(resp)
            IN IF r.kind = "err"
               THEN /\ ret' = Some(r)
                    /\ pc' = "done"
                    /\ UNCHANGED alerts
               ELSE /\ alerts' = Some(r.value)
                    /\ pc' = "aggregate"
                    /\ UNCHANGED ret
    /\ UNCHANGED <<ca, insecure, client, loginResp, session_token, ok_count,
                   warn_count, critical_count, result, logoutResp>>

\* if alerts.count == 0 { return Ok(...) }
NoAlertsReturn ==
    /\ pc = "aggregate"
    /\ LET a == aggregate(alerts[1])
       IN /\ a.path = "return"
          /\ ret' = Some(a.value)
          /\ pc' = "done"
    /\ UNCHANGED <<ca, insecure, client, loginResp, session_token, alertsResp, alerts,
                   ok_count, warn_count, critical_count, result, logoutResp, requests>>

\* bail!("BUG: Unknown alert severity {}", alert.severity) inside the loop
UnknownSeverityBail ==
    /\ pc = "aggregate"
    /\ LET a == aggregate(alerts[1])
       IN /\ a.path = "bail"
          /\ ret' = Some(a.value)
          /\ pc' = "done"
    /\ UNCHANGED <<ca, insecure, client, loginResp, session_token, alertsResp, alerts,
                   ok_count, warn_count, critical_count, result, logoutResp, requests>>

\* The loop ran to its end: result.status and result.message are set.
ComputeVerdict ==
    /\ pc = "aggregate"
    /\ LET a == aggregate(alerts[1])
       IN /\ a.path = "fallthrough"
          /\ ok_count' = a.counts.ok_count
          /\ warn_count' = a.counts.warn_count
          /\ critical_count' = a.counts.critical_count
          /\ result' = a.value.value
          /\ pc' = "logout"
    /\ UNCHANGED <<ca, insecure, client, loginResp, session_token, alertsResp, alerts,
                   logoutResp, requests, ret>>

\* A logout whose error is propagated with `?` instead of being dropped.
LogoutPropagated ==
    /\ pc = "logout"
    /\ \E resp \in LogoutResponses :
         /\ logoutResp' = Some(resp)
         /\ requests' = Append(requests, LogoutRequest(session_token[1]))
         /\ LET r == logout(resp)
            IN IF r.kind = "err"
               THEN ret' = Some(r) /\ pc' = "done"
               ELSE ret' = ret /\ pc' = "return"
    /\ UNCHANGED <<ca, insecure, client, loginResp, session_token, alertsResp, alerts,
                   ok_count, warn_count, critical_count, result>>

\* { logout(&client, host, &session_token); }  -- the Result is dropped:
\* whatever logout(resp) is, the run goes on to Ok(result).
Logout ==
    /\ pc = "logout"
    /\ \E resp \in LogoutResponses :
         /\ logoutResp' = Some(resp)
         /\ requests' = Append(requests, LogoutRequest(session_token[1]))
         /\ LET r == logout(resp)
            IN pc' = IF r.kind = "err" THEN "return" ELSE "return"
    /\ UNCHANGED <<ca, insecure, client, loginResp, session_token, alertsResp, alerts,
                   ok_count, warn_count, critical_count, result, ret>>

\* Ok(result)
Return ==
    /\ pc = "return"
    /\ ret' = Some(Ok(result))
    /\ pc' = "done"
    /\ UNCHANGED <<ca, insecure, client, loginResp, session_token, alertsResp, alerts,
                   ok_count, warn_count, critical_count, result, logoutResp, requests>>

Next ==
    \/ CreateClient
    \/ Login
    \/ GetAlerts
    \/ NoAlertsReturn
    \/ UnknownSeverityBail
    \/ ComputeVerdict
    \/ Logout
    \/ Return

Spec == Init /\ [][Next]_vars

(***************************************************************************)
(* Properties                                                              *)
(***************************************************************************)
is_success(status) == status >= 200 /\ status < 300

Done == pc = "done"
Fetched == alerts # None
Members == alerts[1].members
Lowered(i) == to_lowercase(Members[i].severity)
Known(i) == Lowered(i) \in {SevOk, SevWarning, SevCritical}
NumberOf(sev) == Cardinality({i \in DOMAIN Members : Lowered(i) = sev})

AuthenticationError == Err("SimpleError", "Login to HPE OneView failed")

\* C1: in every finished run in which login returned a session token, the
\* last request issued is the logout request for that token.
C1_LogoutIsLastAction ==
    (Done /\ session_token # None) =>
        /\ requests # <<>>
        /\ requests[Len(requests)] = LogoutRequest(session_token[1])

\* C2: the value returned for a fetched collection is the same for every
\* value of its count field: it depends on the members only.
C2_ResultIndependentOfCount ==
    (Done /\ Fetched) =>
        \A c \in 0..MaxCount :
            aggregate([count |-> c, members |-> Members]).value = ret[1]

\* C3: a collection with zero members, whatever its count, gives exactly
\* OK with the message "No uncleared alerts found".
C3_EmptyMembersNoAlerts ==
    (Done /\ Fetched /\ Members = <<>>) =>
        ret[1] = Ok(NagiosState(OK, "No uncleared alerts found"))

\* C4: a collection holding a member of unknown severity, at any position
\* and for any count, ends the run with an error naming such a severity.
C4_UnknownSeverityFails ==
    (Done /\ Fetched /\ \E i \in DOMAIN Members : ~Known(i)) =>
        /\ ret[1].kind = "err"
        /\ \E i \in DOMAIN Members :
             /\ ~Known(i)
             /\ ret[1].error = "BUG: Unknown alert severity " \o Str(Members[i].severity)

\* C5: for non-empty members of known severities only (case-insensitively)
\* the status is CRITICAL if one is critical, else WARNING if one is
\* warning, else OK, and never UNKNOWN.
C5_StatusByPriority ==
    (Done /\ Fetched /\ Members # <<>> /\ \A i \in DOMAIN Members : Known(i)) =>
        /\ ret[1].kind = "ok"
        /\ ret[1].value.status # UNKNOWN
        /\ ret[1].value.status =
             IF NumberOf(SevCritical) > 0 THEN CRITICAL
             ELSE IF NumberOf(SevWarning) > 0 THEN WARNING
             ELSE OK

ExpectedMessage ==
    (IF NumberOf(SevCritical) > 0
     THEN Display(NumberOf(SevCritical)) \o " critical alerts found, " ELSE "")
    \o (IF NumberOf(SevWarning) > 0
        THEN Display(NumberOf(SevWarning)) \o " warning alerts found, " ELSE "")
    \o Display(NumberOf(SevOk)) \o " harmless alerts found"

\* C6: for non-empty members of known severities only, the message is the
\* critical clause (iff any), the warning clause (iff any) and the harmless
\* clause (always), in that order, joined with ", ", whatever the order of
\* the members.
C6_MessageClauses ==
    (Done /\ Fetched /\ Members # <<>> /\ \A i \in DOMAIN Members : Known(i)) =>
        /\ ret[1].kind = "ok"
        /\ ret[1].value.message = ExpectedMessage

\* C7: a login response with a non-success status never yields a session
\* token: the run ends with an error, one other than the authentication
\* error of the missing header.
C7_NonSuccessLoginFails ==
    (loginResp # None /\ loginResp[1].kind = "http" /\ ~is_success(loginResp[1].status)) =>
        /\ session_token = None
        /\ ret # None
        /\ ret[1].kind = "err"
        /\ ret[1] # AuthenticationError

HeaderAbsent ==
    /\ loginResp # None
    /\ loginResp[1].kind = "http"
    /\ is_success(loginResp[1].status)
    /\ loginResp[1].sessionID = None

\* C8: a login response with a success status and no sessionID header ends
\* the run with the authentication error, without a token, without a
\* verdict, and without any request after the login request.
C8_HeaderAbsentFailsLogin ==
    HeaderAbsent =>
        /\ Done
        /\ ret = Some(AuthenticationError)
        /\ session_token = None
        /\ requests = <<LoginRequest>>

C8_Witness == HeaderAbsent /\ Done /\ ret # None /\ ret[1].kind = "err"

\* C9: once logout has been attempted, whatever its outcome, the run
\* returns Ok with the result computed before the logout, which is the
\* aggregation of the fetched alerts; a failed logout gives no error.
C9_LogoutOutcomeDiscarded ==
    (Done /\ logoutResp # None) =>
        /\ ret[1].kind = "ok"
        /\ ret[1] = Ok(result)
        /\ ret[1] = aggregate(alerts[1]).value

C9_Witness ==
    /\ Done
    /\ logoutResp = Some(TransportError)
    /\ ret # None
    /\ ret[1].kind = "ok"
    /\ ret[1].value.status = CRITICAL

\* C10: with insecure mode on, create_client succeeds for every CA input
\* with certificate and hostname verification disabled and no root added;
\* it fails only with insecure mode off and a non-empty, malformed CA.
C10_InsecureIgnoresCa ==
    (pc # "create_client") =>
        /\ insecure =>
             /\ client # None
             /\ client[1].accept_invalid_certs
             /\ client[1].accept_invalid_hostnames
             /\ client[1].root_certificates = <<>>
        /\ client = None =>
             /\ ~insecure
             /\ ca.len # 0
             /\ ~ca.pem
             /\ ret = Some(Err("reqwest::Error", "invalid certificate"))

C10_Witness ==
    /\ pc # "create_client"
    /\ insecure
    /\ ca = CaMalformed
    /\ client # None

====
